---------------------------- MODULE Spec2Model ----------------------------
(***************************************************************************)
(* A model of gcuth/ats-papers: the scrape of the ATS document database   *)
(* (src/data/scrape_dataset.py), the parse of the fetched files' names     *)
(* (src/data/make_document_dataset.py) and the join of the metadata back   *)
(* onto the files (src/features/add_document_features.py).                 *)
(*                                                                         *)
(* Python strings are TLA+ strings (Len, \o and SubSeq act on them), so    *)
(* the naming scheme and its inverse parse are computed character by       *)
(* character.  A Python value whose type varies (int or str) is a record   *)
(* tagged with its type: 2 and '2' are different values, as in Python.     *)
(***************************************************************************)
EXTENDS Integers, Sequences, FiniteSets, TLC

(***************************************************************************)
(* Python's string operations.                                             *)
(***************************************************************************)
Char(s, i) == SubSeq(s, i, i)

IsDigit(c) == c \in {"0", "1", "2", "3", "4", "5", "6", "7", "8", "9"}

Last(seq) == seq[Len(seq)]

RECURSIVE SplitFrom(_, _, _, _)
SplitFrom(s, sep, i, cur) ==
    IF i > Len(s) THEN <<cur>>
    ELSE IF Char(s, i) = sep THEN <<cur>> \o SplitFrom(s, sep, i + 1, "")
    ELSE SplitFrom(s, sep, i + 1, cur \o Char(s, i))

\* s.split(sep) for a separator of one character
Split(s, sep) == SplitFrom(s, sep, 1, "")

RECURSIVE Join(_, _)
\* sep.join(parts)
Join(parts, sep) ==
    IF Len(parts) = 0 THEN ""
    ELSE IF Len(parts) = 1 THEN parts[1]
    ELSE parts[1] \o sep \o Join(Tail(parts), sep)

\* sub in s
Contains(sub, s) ==
    \E i \in 1..(Len(s) - Len(sub) + 1) : SubSeq(s, i, i + Len(sub) - 1) = sub

RECURSIVE IntToStr(_)
\* str(n) for an int n >= 0
IntToStr(n) ==
    IF n < 10 THEN Char("0123456789", n + 1)
    ELSE IntToStr(n \div 10) \o Char("0123456789", (n % 10) + 1)

\* a number left as str() gives it
NoFill(s, width) == s

RECURSIVE ZFill(_, _)
\* s.zfill(width) for a string without sign
ZFill(s, width) == IF Len(s) >= width THEN s ELSE ZFill("0" \o s, width)

\* s.endswith(suffix)
EndsWith(s, suffix) ==
    /\ Len(s) >= Len(suffix)
    /\ SubSeq(s, Len(s) - Len(suffix) + 1, Len(s)) = suffix

RECURSIVE Replace(_, _, _)
\* s.replace(old, new)
Replace(s, old, new) ==
    IF Len(s) < Len(old) \/ Len(s) = 0 THEN s
    ELSE IF SubSeq(s, 1, Len(old)) = old
    THEN new \o Replace(SubSeq(s, Len(old) + 1, Len(s)), old, new)
    ELSE Char(s, 1) \o Replace(SubSeq(s, 2, Len(s)), old, new)

RECURSIVE LStrip(_, _)
\* s.lstrip(c) for one character c
LStrip(s, c) ==
    IF Len(s) > 0 /\ Char(s, 1) = c THEN LStrip(SubSeq(s, 2, Len(s)), c) ELSE s

RECURSIVE RunFrom(_, _, _)
\* the maximal run of digits (digit = TRUE) or of non-digits starting at i
RunFrom(s, i, digit) ==
    IF i > Len(s) \/ (IsDigit(Char(s, i)) # digit) THEN ""
    ELSE Char(s, i) \o RunFrom(s, i + 1, digit)

RECURSIVE FirstRunFrom(_, _, _)
FirstRunFrom(s, i, digit) ==
    IF i > Len(s) THEN ""
    ELSE IF IsDigit(Char(s, i)) = digit THEN RunFrom(s, i, digit)
    ELSE FirstRunFrom(s, i + 1, digit)

\* re.findall(r'\d+|$', s)[0]: the first run of digits, '' when there is none
FirstDigits(s) == FirstRunFrom(s, 1, TRUE)

\* re.findall(r'\D+|$', s)[0]: the first run of non-digits, '' when there is none
FirstNonDigits(s) == FirstRunFrom(s, 1, FALSE)

(***************************************************************************)
(* Python values of varying type.                                          *)
(***************************************************************************)
PyInt(n) == [t |-> "int", i |-> n, s |-> ""]
PyStr(x) == [t |-> "str", i |-> 0, s |-> x]


(***************************************************************************)
(* The state.                                                              *)
(*                                                                         *)
(* The reconciliation pipeline (make_document_dataset.py,                  *)
(* add_document_features.py):                                              *)
(*   metadata      the corpus handed to the join, a list of records        *)
(*   doc_path      the path of the raw document being processed            *)
(*   document_row  the row get_doc_df built for it (<<>> before the parse) *)
(*   meta          what get_best_matching_metadata returned: <<>> is the   *)
(*                 empty dict, <<m>> the record m                          *)
(*   rpc           where the pipeline is: "raw", "row", "matched"          *)
(* The naming scheme, applied to one record:                               *)
(*   wp_info       the record                                              *)
(*   links         construct_document_links(wp_info) (<<>> before)         *)
(*   rows          the rows parsed from the files named by links           *)
(*   npc           "record", "linked", "parsed"                            *)
(* The output directory and one call of scrape_documents:                  *)
(*   dir           the directory: file name -> content                     *)
(*   paper         the record the call is for                              *)
(*   ignore_existing  the call's skip-existing switch                      *)
(*   doc_links     the links the call has still to request                 *)
(*   existing      the paths the call listed when it started               *)
(*   requests      the URLs the call has requested, in order               *)
(*   wrote         the paths the call has written                          *)
(*   fpc           "idle", "fetching", "returned", "raised", "killed"      *)
(*   calls         the number of calls started                             *)
(*   prev          requests, wrote and fpc of the call before this one     *)
(*   start_dir     the directory as it was when the call started           *)
(*   timed_out     the URLs whose GET timed out in the call, recorded for  *)
(*                 the calls made on their own (not for those of main)     *)
(* One call of scrape_working_papers_listing:                              *)
(*   current_page  the page of the request in hand                         *)
(*   url           <<u>>, the URL to request next, or <<>> for None        *)
(*   crawled       the listings accumulated (the function's `papers`)      *)
(*   page_requests the URLs requested, in order                            *)
(*   responses     the pages processed: [page, payload, next], in order    *)
(*   cpc           "idle", "requesting", "returned", "raised"              *)
(*   crawl_result  <<>>, or <<papers>> once the function has returned      *)
(* One run of scrape_dataset.main:                                         *)
(*   papers        main's list of records                                  *)
(*   loaded        what load_all_metadata returned                         *)
(*   idx           the number of records the loop has taken up             *)
(*   attempted     the positions of papers taken up, in order              *)
(*   mpc           "module", "start", "loaded", "loop", "done", "raised"   *)
(*   error         the exception that ended the run, "" when none          *)
(* One run of scrape_measures_dataset.main (dir is its output directory):  *)
(*   measure_n     the id the loop requests next                           *)
(*   measure_requests  the URLs requested, in order                        *)
(*   answer        the answer to the last request                          *)
(*   measure_info  what scrape_measure returned last: <<>> is None         *)
(*   now           the clock, in half seconds                              *)
(*   spc           "idle", "running", "done", "raised"                     *)
(*   measure_error the exception that ended the run, "" when none          *)
(***************************************************************************)
VARIABLES metadata, doc_path, document_row, meta, rpc,
          wp_info, links, rows, npc,
          dir, paper, ignore_existing, doc_links, existing, requests, wrote,
          fpc, calls, prev, start_dir, timed_out,
          current_page, url, crawled, page_requests, responses, cpc,
          crawl_result,
          papers, loaded, idx, attempted, mpc, error,
          measure_n, measure_requests, answer, measure_info, now, spc,
          measure_error

reconVars == <<metadata, doc_path, document_row, meta, rpc>>
namingVars == <<wp_info, links, rows, npc>>
callVars ==
    <<paper, ignore_existing, doc_links, existing, requests, wrote, fpc,
      calls, prev, start_dir, timed_out>>
fetchVars == <<dir, callVars>>
crawlVars ==
    <<current_page, url, crawled, page_requests, responses, cpc, crawl_result>>
mainVars == <<papers, loaded, idx, attempted, mpc, error>>
measureVars ==
    <<measure_n, measure_requests, answer, measure_info, now, spc,
      measure_error>>
vars == <<reconVars, namingVars, fetchVars, crawlVars, mainVars, measureVars>>

(***************************************************************************)
(* The naming scheme: scrape_dataset.py and add_document_features.py hold  *)
(* one copy each.                                                          *)
(***************************************************************************)
Languages == <<"e", "s", "f", "r">>

\* [x for x in parts if x]: None and '' are dropped
Truthy(parts) == SelectSeq(parts, LAMBDA x : x # "")

\* a scheme that names the revision of every record, 0 included
RevisionNotNegative(wp) == wp.Revision >= 0

\* line 72: if wp_info['Revision'] > 0
HasRevision(wp) == wp.Revision > 0

\* the filename of one language; `revision` is <<>> for None
FnameOf(wp, country) ==
    LET meeting == wp.Meeting_type \o wp.Meeting_number
        pnum == wp.Abbreviation \o ZFill(IntToStr(wp.Number), 3)
        revision == IF HasRevision(wp)
                    THEN <<"rev" \o IntToStr(wp.Revision)>>
                    ELSE <<>>
    IN  Join(Truthy(<<meeting, pnum>> \o revision \o <<country>>), "_")
            \o "." \o wp.Type

construct_document_links(wp) ==
    LET meeting == wp.Meeting_type \o wp.Meeting_number
        base == "https://documents.ats.aq/" \o meeting \o "/" \o wp.Abbreviation
    IN  [i \in 1..Len(Languages) |-> base \o "/" \o FnameOf(wp, Languages[i])]

\* a copy of the scheme that has lost its zero padding
get_fnames_unpadded(wp) ==
    [i \in 1..Len(Languages) |->
        Join(Truthy(<<wp.Meeting_type \o wp.Meeting_number,
                      wp.Abbreviation \o IntToStr(wp.Number)>>
                    \o (IF wp.Revision > 0
                        THEN <<"rev" \o IntToStr(wp.Revision)>>
                        ELSE <<>>)
                    \o <<Languages[i]>>), "_")
            \o "." \o wp.Type]

\* add_document_features.py lines 18-33: the scheme written out a second
\* time, for ['e','s','f','r'] in this order
get_fnames_from_meta_dict(wp) ==
    LET meeting == wp.Meeting_type \o wp.Meeting_number
        pnum == wp.Abbreviation \o ZFill(IntToStr(wp.Number), 3)
        revision == IF wp.Revision > 0
                    THEN <<"rev" \o IntToStr(wp.Revision)>>
                    ELSE <<>>
        fname(country) ==
            Join(Truthy(<<meeting, pnum>> \o revision \o <<country>>), "_")
                \o "." \o wp.Type
    IN  <<fname("e"), fname("s"), fname("f"), fname("r")>>

\* doc_link.split('/')[-1]
LinkFname(doc_link) == Last(Split(doc_link, "/"))

\* PurePath(out_dir).joinpath(fname), as the string str() gives
construct_document_outpath(out_dir, doc_link) ==
    out_dir \o "/" \o LinkFname(doc_link)

(***************************************************************************)
(* get_doc_df: the row of one raw document, parsed from its filename.      *)
(* raw_text comes from the external converters and is left out.            *)
(***************************************************************************)
RevisionOf(filename) ==
    IF Contains("_rev", filename)
    THEN LET bits == SelectSeq(Split(filename, "_"),
                               LAMBDA x : Contains("rev", x))
         IN  PyStr(FirstDigits(bits[1]))
    ELSE PyInt(0)

DocRow(path) ==
    LET filename == Last(Split(path, "/"))
        parts == Split(filename, "_")
    IN  [filename |-> filename,
         extension |-> Last(Split(filename, ".")),
         meeting |-> parts[1],
         paper_type_abbreviation |-> FirstNonDigits(parts[2]),
         paper_number |-> FirstDigits(parts[2]),
         paper_revision |-> RevisionOf(filename),
         paper_language_abbreviation |-> Split(Last(parts), ".")[1]]

(***************************************************************************)
(* get_best_matching_metadata: the six filters, then the resolution.       *)
(***************************************************************************)
Stage1(m, row) == m.Type = row.extension
Stage2(m, row) == m.Abbreviation = row.paper_type_abbreviation
Stage3(m, row) == IntToStr(m.Number) = LStrip(row.paper_number, "0")
Stage4(m, row) == Contains(m.Meeting_type, row.meeting)
Stage5(m, row) == PyInt(m.Revision) = row.paper_revision
Stage6(m, row) ==
    \E i \in 1..Len(Languages) : get_fnames_from_meta_dict(m)[i] = row.filename

FilterChain(row, corpus) ==
    LET m1 == SelectSeq(corpus, LAMBDA m : Stage1(m, row))
        m2 == SelectSeq(m1, LAMBDA m : Stage2(m, row))
        m3 == SelectSeq(m2, LAMBDA m : Stage3(m, row))
        m4 == SelectSeq(m3, LAMBDA m : Stage4(m, row))
        m5 == SelectSeq(m4, LAMBDA m : Stage5(m, row))
    IN  SelectSeq(m5, LAMBDA m : Stage6(m, row))

\* a resolution that takes the first of several candidates
ResolveFirst(survivors) ==
    IF Len(survivors) >= 1 THEN <<survivors[1]>> ELSE <<>>

Resolve(survivors) ==
    IF Len(survivors) = 1 THEN <<survivors[1]>> ELSE <<>>

get_best_matching_metadata(row, corpus) == Resolve(FilterChain(row, corpus))

(***************************************************************************)
(* join_metadata_to_document_df, for one row.  A joined field is <<>> for  *)
(* None and <<v>> for the value v.                                         *)
(***************************************************************************)
\* m.get(key)
Get(m, key) == IF key \in DOMAIN m THEN <<m[key]>> ELSE <<>>

\* a join that falls back on the first record of the corpus
JoinSourceGuess(m, corpus) ==
    IF m # <<>> THEN m[1] ELSE IF corpus # <<>> THEN corpus[1] ELSE <<>>

\* the dict the fields are read from: the match, or {}
JoinSource(m, corpus) == IF m # <<>> THEN m[1] ELSE <<>>

\* line 98: the names of the parties that have one, joined with ', '
PartyNames(m) ==
    LET parties == IF "Parties" \in DOMAIN m THEN m.Parties ELSE <<>>
        names == [k \in 1..Len(parties) |->
                     IF "Name" \in DOMAIN parties[k]
                     THEN parties[k].Name ELSE ""]
    IN  Join(SelectSeq(names, LAMBDA name : Len(name) > 0), ", ")

JoinedFields ==
    {"meeting_year", "paper_name", "paper_id", "paper_type_id",
     "meeting_type", "meeting_id", "meeting_number", "meeting_name",
     "parties"}

join_metadata_to_document_df(row, corpus) ==
    LET m == JoinSource(get_best_matching_metadata(row, corpus), corpus)
        joined == [meeting_year |-> Get(m, "Meeting_year"),
                   paper_name |-> Get(m, "Name"),
                   paper_id |-> Get(m, "Paper_id"),
                   paper_type_id |-> Get(m, "Pap_type_id"),
                   meeting_type |-> Get(m, "Meeting_type"),
                   meeting_id |-> Get(m, "Meeting_id"),
                   meeting_number |-> Get(m, "Meeting_number"),
                   meeting_name |-> Get(m, "Meeting_name"),
                   parties |-> <<PartyNames(m)>>]
    IN  [f \in DOMAIN row \cup JoinedFields |->
            IF f \in JoinedFields THEN joined[f] ELSE row[f]]


(***************************************************************************)
(* scrape_documents, as a function of the directory and of the server's    *)
(* responses.  A call is a record                                          *)
(*   [dir, doc_links, existing, requests, wrote, pc];                      *)
(* ScrapeStart is the call up to its first request (lines 110-120),        *)
(* ScrapeStep one turn of the loop over doc_links (lines 121-131).         *)
(***************************************************************************)
OutDir == "data/raw"

\* the content of a file: the bytes of a document, the records of a snapshot
Bytes(b) == [bytes |-> b, json |-> <<>>]
Json(records) == [bytes |-> "", json |-> records]

\* a listing of the bare names, not joined to the directory
ListNames(out_dir, d) == DOMAIN d

\* [os.path.join(out_dir, f) for f in os.listdir(out_dir)]
ListPaths(out_dir, d) == {out_dir \o "/" \o f : f \in DOMAIN d}

BaseName(path) == Last(Split(path, "/"))

\* a write that leaves the bytes in a temporary file beside the output path
WriteFilePart(d, outpath, content) ==
    [f \in DOMAIN d \cup {BaseName(outpath) \o ".part"} |->
        IF f = BaseName(outpath) \o ".part" THEN content ELSE d[f]]

\* open(outpath, 'wb+') and f.write(raw_doc)
WriteFile(d, outpath, content) ==
    [f \in DOMAIN d \cup {BaseName(outpath)} |->
        IF f = BaseName(outpath) THEN content ELSE d[f]]

\* the keys construct_document_links reads
LinkKeys ==
    {"Meeting_type", "Meeting_number", "Abbreviation", "Number", "Revision",
     "Type"}

\* a server's answers to a GET: a response with r.ok and its content, a
\* response without r.ok, a Timeout, another transport error
Bodies == {"", "%PDF-new"}
Responses ==
    [kind : {"ok"}, body : Bodies]
        \cup [kind : {"status", "timeout", "error"}, body : {""}]

\* a filter that looks for the file's name among the listed paths
FilterExistingByName(out_dir, all, listed) ==
    SelectSeq(all, LAMBDA l : LinkFname(l) \notin listed)

\* the links kept by the filter of lines 115-119
FilterExisting(out_dir, all, listed) ==
    SelectSeq(all, LAMBDA l : construct_document_outpath(out_dir, l) \notin listed)

ScrapeStart(wp, d, skip) ==
    IF ~({"Paper_id"} \cup LinkKeys \subseteq DOMAIN wp)
    THEN \* KeyError at line 110 or in construct_document_links
         [dir |-> d, doc_links |-> <<>>, existing |-> {}, requests |-> <<>>,
          wrote |-> {}, pc |-> "raised"]
    ELSE LET all == construct_document_links(wp)
             listed == IF skip THEN ListPaths(OutDir, d) ELSE {}
             kept == IF skip THEN FilterExisting(OutDir, all, listed) ELSE all
         IN  [dir |-> d, doc_links |-> kept, existing |-> listed,
              requests |-> <<>>, wrote |-> {},
              pc |-> IF kept = <<>> THEN "returned" ELSE "fetching"]

\* a fetch that returns the content without its last byte
RawDocCut(resp) ==
    IF resp.kind = "ok"
    THEN <<SubSeq(resp.body, 1, Len(resp.body) - 1)>>
    ELSE <<>>

\* scrape_document_from_link: the bytes, or <<>> for None; an "error"
\* response is raised through it
RawDoc(resp) == IF resp.kind = "ok" THEN <<resp.body>> ELSE <<>>

\* a fetch whose try lets the Timeout through as well
PropagatesTimeout(resp) == resp.kind \in {"error", "timeout"}

\* a fetch whose try catches every exception of requests.get
PropagatesNothing(resp) == FALSE

\* the exceptions of requests.get that `except Timeout` (line 98) does not
\* catch leave scrape_document_from_link and scrape_documents
Propagates(resp) == resp.kind = "error"

ScrapeStep(st, resp) ==
    LET doc_link == Head(st.doc_links)
        rest == Tail(st.doc_links)
        asked == Append(st.requests, doc_link)
        raw_doc == RawDoc(resp)
        outpath == construct_document_outpath(OutDir, doc_link)
    IN  IF Propagates(resp)
        THEN [st EXCEPT !.requests = asked, !.doc_links = rest, !.pc = "raised"]
        ELSE IF raw_doc # <<>> /\ raw_doc[1] # ""
        THEN [st EXCEPT !.requests = asked, !.doc_links = rest,
                        !.dir = WriteFile(st.dir, outpath, Bytes(raw_doc[1])),
                        !.wrote = st.wrote \cup {outpath},
                        !.pc = IF rest = <<>> THEN "returned" ELSE "fetching"]
        ELSE [st EXCEPT !.requests = asked, !.doc_links = rest,
                        !.pc = IF rest = <<>> THEN "returned" ELSE "fetching"]

(***************************************************************************)
(* The inputs.  Records are the listing's JSON objects: Number and         *)
(* Revision are ints, the other fields strings.                            *)
(***************************************************************************)
MaxCorpus == 2

RawDir == "data/raw"

\* the records a corpus is drawn from: two meeting types of which one
\* contains the other, the same numbering under both, and two paper ids, so
\* that two distinct records can derive the same filenames
CorpusRecords ==
    [Paper_id : {1, 2}, Meeting_type : {"ATCM", "SATCM"},
     Meeting_number : {"12"}, Abbreviation : {"wp"}, Number : {0, 7},
     Revision : {0, 2}, Type : {"pdf"}, Name : {"Report of the depositary"},
     Meeting_year : {1983},
     Parties : {<<[Name |-> "Chile"], [Party_id |-> 7], [Name |-> "Peru"]>>}]

\* the records the naming scheme is applied to on its own
NamingRecords ==
    {r \in [Paper_id : {1}, Meeting_type : {"ATCM", "CEP"},
            Meeting_number : {"4", "12"}, Abbreviation : {"wp", "ip"},
            Number : {0, 7, 45, 123, 1234}, Revision : {0, 1, 2, 10},
            Type : {"pdf", "doc"}] :
        r.Type = "doc" =>
            (r.Meeting_type = "CEP" /\ r.Meeting_number = "4"
                /\ r.Abbreviation = "ip")}

Corpora == UNION {[1..n -> CorpusRecords] : n \in 0..MaxCorpus}

\* os.path.join(data_dir, f) for the documents the fetch can have written
RawDocs ==
    {construct_document_outpath(RawDir, construct_document_links(r)[i]) :
        r \in CorpusRecords, i \in 1..Len(Languages)}

NoRecord == [Paper_id |-> 0]

(***************************************************************************)
(* The reconciliation of one raw document against a corpus.                *)
(***************************************************************************)
ReconOff ==
    /\ metadata = <<>>
    /\ doc_path = ""
    /\ document_row = <<>>
    /\ meta = <<>>
    /\ rpc = "off"

NamingOff ==
    /\ wp_info = NoRecord
    /\ links = <<>>
    /\ rows = <<>>
    /\ npc = "off"

NoCall == [requests |-> <<>>, wrote |-> {}, pc |-> "idle"]

FetchOff ==
    /\ dir = <<>>
    /\ paper = NoRecord
    /\ ignore_existing = TRUE
    /\ doc_links = <<>>
    /\ existing = {}
    /\ requests = <<>>
    /\ wrote = {}
    /\ fpc = "off"
    /\ calls = 0
    /\ prev = NoCall
    /\ start_dir = <<>>
    /\ timed_out = {}

CrawlOff ==
    /\ current_page = 0
    /\ url = <<>>
    /\ crawled = <<>>
    /\ page_requests = <<>>
    /\ responses = <<>>
    /\ cpc = "off"
    /\ crawl_result = <<>>

MainOff ==
    /\ papers = <<>>
    /\ loaded = <<>>
    /\ idx = 0
    /\ attempted = <<>>
    /\ mpc = "off"
    /\ error = ""

NoPage == [kind |-> "none"]

MeasuresOff ==
    /\ measure_n = 0
    /\ measure_requests = <<>>
    /\ answer = NoPage
    /\ measure_info = <<>>
    /\ now = 0
    /\ spc = "off"
    /\ measure_error = ""

InitMatch ==
    /\ MeasuresOff
    /\ metadata \in Corpora
    /\ doc_path \in RawDocs
    /\ document_row = <<>>
    /\ meta = <<>>
    /\ rpc = "raw"
    /\ NamingOff
    /\ FetchOff
    /\ CrawlOff
    /\ MainOff

\* make_document_dataset.main: get_doc_df builds the document's row
GetDocDf ==
    /\ rpc = "raw"
    /\ document_row' = <<DocRow(doc_path)>>
    /\ rpc' = "row"
    /\ UNCHANGED <<metadata, doc_path, meta, namingVars, fetchVars, crawlVars, mainVars,
                   measureVars>>

\* add_document_features.main: join_metadata_to_document_df matches the row
JoinMetadata ==
    /\ rpc = "row"
    /\ meta' = get_best_matching_metadata(document_row[1], metadata)
    /\ document_row' =
           <<join_metadata_to_document_df(document_row[1], metadata)>>
    /\ rpc' = "matched"
    /\ UNCHANGED <<metadata, doc_path, namingVars, fetchVars, crawlVars, mainVars,
                   measureVars>>

NextMatch == GetDocDf \/ JoinMetadata

SpecMatch == InitMatch /\ [][NextMatch]_vars

(***************************************************************************)
(* The naming scheme and its inverse parse, on one record.                 *)
(***************************************************************************)
\* os.listdir(data_dir): the names of the directory, in an order that is
\* the file system's; any order can be the one
ListDir(d) ==
    {l \in [1..Cardinality(DOMAIN d) -> DOMAIN d] :
        \A a, b \in 1..Cardinality(DOMAIN d) : a # b => l[a] # l[b]}

\* the raw directory once the four documents of the record are fetched
NamingDir(wp) ==
    [f \in {LinkFname(construct_document_links(wp)[i]) :
                i \in 1..Len(Languages)} |-> Bytes("%PDF-old")]

InitNaming ==
    /\ MeasuresOff
    /\ wp_info \in NamingRecords
    /\ links = <<>>
    /\ rows = <<>>
    /\ npc = "record"
    /\ dir = NamingDir(wp_info)
    /\ paper = NoRecord
    /\ ignore_existing = TRUE
    /\ doc_links = <<>>
    /\ existing = {}
    /\ requests = <<>>
    /\ wrote = {}
    /\ fpc = "off"
    /\ calls = 0
    /\ prev = NoCall
    /\ start_dir = dir
    /\ timed_out = {}
    /\ ReconOff
    /\ CrawlOff
    /\ MainOff

\* scrape_dataset: the four links of the record
ResolveLinks ==
    /\ npc = "record"
    /\ links' = construct_document_links(wp_info)
    /\ npc' = "linked"
    /\ UNCHANGED <<wp_info, rows, reconVars, fetchVars, crawlVars, mainVars,
                   measureVars>>

\* convert_doc_to_docx, lines 26-27: the path unoconv is expected to write
DocxPath(data_path) ==
    LET parts == Split(data_path, "/")
        doc_dir == Join(SubSeq(parts, 1, Len(parts) - 1), "/")
    IN  doc_dir \o "/" \o Replace(Last(parts), ".doc", ".docx")

\* what unoconv leaves at that path
Docx == Bytes("PK-docx")

\* get_text_for_document, lines 88-90: the file goes to get_doc_text, and
\* from there to unoconv when pypandoc cannot read it
IsDoc(data_path) == EndsWith(data_path, ".doc")

\* list_raw_docs, lines 138-141: the .doc and .pdf files of the directory,
\* in the order os.listdir gave them
list_raw_docs(data_dir, listing) ==
    SelectSeq([k \in 1..Len(listing) |-> data_dir \o "/" \o listing[k]],
              LAMBDA f : EndsWith(f, ".doc") \/ EndsWith(f, ".pdf"))

\* make_document_dataset.main: list_raw_docs, then get_doc_df builds one row
\* for each file, in the order of the list.  A pdf is read in place.  A doc
\* that pypandoc cannot read is handed to unoconv, which writes NAME.docx
\* beside it, or writes nothing; `converted` are the files it has written a
\* docx for.
ParseFiles ==
    /\ npc = "linked"
    /\ \E listing \in ListDir(dir) :
        LET raw_docs == list_raw_docs(RawDir, listing)
        IN  /\ rows' = [i \in 1..Len(raw_docs) |-> DocRow(raw_docs[i])]
            /\ \E converted \in
                    SUBSET {i \in 1..Len(raw_docs) : IsDoc(raw_docs[i])} :
                dir' = [f \in DOMAIN dir
                               \cup {BaseName(DocxPath(raw_docs[i])) :
                                        i \in converted} |->
                           IF f \in DOMAIN dir THEN dir[f] ELSE Docx]
    /\ npc' = "parsed"
    /\ UNCHANGED <<wp_info, links, reconVars, callVars, crawlVars, mainVars,
                   measureVars>>

\* pypandoc cannot read the first doc and unoconv is not on the PATH:
\* subprocess.call (line 25) raises FileNotFoundError, inside the handler
\* of get_doc_text, and it leaves get_doc_df: no row is built
ParseFilesRaises ==
    /\ npc = "linked"
    /\ \E f \in DOMAIN dir : IsDoc(RawDir \o "/" \o f)
    /\ npc' = "raised"
    /\ UNCHANGED <<wp_info, links, rows, reconVars, fetchVars, crawlVars,
                   mainVars, measureVars>>

NextNaming == ResolveLinks \/ ParseFiles \/ ParseFilesRaises

SpecNaming == InitNaming /\ [][NextNaming]_vars


(***************************************************************************)
(* scrape_documents called again and again for one record on one           *)
(* directory, the server answering each request as it likes.               *)
(***************************************************************************)
MaxCalls == 2

FetchRecords ==
    {r \in CorpusRecords :
        /\ r.Paper_id = 1 /\ r.Number = 7 /\ r.Meeting_type = "ATCM"
        /\ r.Revision = 2}

SnapshotName == "2020-01-01-00-00-00_papers_metadata.json"

\* the directories a call can find: a snapshot, and any of the record's
\* documents left by an earlier run
StartDirs(wp) ==
    {[f \in {SnapshotName} \cup {LinkFname(construct_document_links(wp)[i]) : i \in have}
        |-> IF f = SnapshotName THEN Json(<<wp>>) ELSE Bytes("%PDF-old")] :
     have \in SUBSET (1..Len(Languages))}

ReconOffAll == ReconOff /\ NamingOff

InitFetch ==
    /\ MeasuresOff
    /\ paper \in FetchRecords
    /\ dir \in StartDirs(paper)
    /\ ignore_existing \in BOOLEAN
    /\ doc_links = <<>>
    /\ existing = {}
    /\ requests = <<>>
    /\ wrote = {}
    /\ fpc = "idle"
    /\ calls = 0
    /\ prev = NoCall
    /\ start_dir = dir
    /\ timed_out = {}
    /\ ReconOffAll
    /\ CrawlOff
    /\ MainOff

CallState ==
    [dir |-> dir, doc_links |-> doc_links, existing |-> existing,
     requests |-> requests, wrote |-> wrote, pc |-> fpc]

SetCall(st) ==
    /\ dir' = st.dir
    /\ doc_links' = st.doc_links
    /\ existing' = st.existing
    /\ requests' = st.requests
    /\ wrote' = st.wrote
    /\ fpc' = st.pc

\* scrape_documents(paper, out_dir, logger, ignore_existing) is called
StartScrape ==
    /\ fpc \in {"idle", "returned", "raised", "killed"}
    /\ calls < MaxCalls
    /\ calls' = calls + 1
    /\ prev' = [requests |-> requests, wrote |-> wrote, pc |-> fpc]
    /\ start_dir' = dir
    /\ timed_out' = {}
    /\ SetCall(ScrapeStart(paper, dir, ignore_existing))
    /\ UNCHANGED <<paper, ignore_existing, reconVars, namingVars, crawlVars,
                   mainVars, measureVars>>

Fetch(resp) ==
    /\ fpc = "fetching"
    /\ SetCall(ScrapeStep(CallState, resp))
    /\ UNCHANGED <<paper, ignore_existing, calls, prev, start_dir, reconVars,
                   namingVars, crawlVars, mainVars, measureVars>>

\* the GET is answered with r.ok
FetchOk ==
    /\ \E b \in Bodies : Fetch([kind |-> "ok", body |-> b])
    /\ UNCHANGED timed_out

\* the GET is answered without r.ok
FetchNotOk ==
    /\ Fetch([kind |-> "status", body |-> ""])
    /\ UNCHANGED timed_out

\* the GET times out
FetchTimeout ==
    /\ Fetch([kind |-> "timeout", body |-> ""])
    /\ timed_out' = timed_out \cup {Head(doc_links)}

\* the GET raises another transport error
FetchError ==
    /\ Fetch([kind |-> "error", body |-> ""])
    /\ UNCHANGED timed_out

\* the process is killed between two turns of the loop
Kill ==
    /\ fpc = "fetching"
    /\ fpc' = "killed"
    /\ UNCHANGED <<dir, paper, ignore_existing, doc_links, existing, requests,
                   wrote, calls, prev, start_dir, timed_out, reconVars,
                   namingVars, crawlVars, mainVars, measureVars>>

\* the bytes a write that did not finish can leave in the file that
\* open(outpath, 'wb+') has created or truncated: none, or the first of them
Partial(b) == {"", SubSeq(b, 1, Len(b) \div 2)}

\* the process is killed in the write of lines 128-129
KillInWrite ==
    /\ fpc = "fetching"
    /\ \E b \in Bodies \ {""} : \E part \in Partial(b) :
        dir' = WriteFile(dir,
                   construct_document_outpath(OutDir, Head(doc_links)),
                   Bytes(part))
    /\ requests' = Append(requests, Head(doc_links))
    /\ doc_links' = Tail(doc_links)
    /\ fpc' = "killed"
    /\ UNCHANGED <<paper, ignore_existing, existing, wrote, calls, prev,
                   start_dir, timed_out, reconVars, namingVars, crawlVars,
                   mainVars, measureVars>>

NextFetch ==
    StartScrape \/ FetchOk \/ FetchNotOk \/ FetchTimeout \/ FetchError

SpecFetch == InitFetch /\ [][NextFetch]_vars

(***************************************************************************)
(* scrape_documents killed and called again, the server answering every    *)
(* request with success.                                                   *)
(***************************************************************************)
NextRecover == StartScrape \/ FetchOk \/ Kill \/ KillInWrite

SpecRecover == InitFetch /\ [][NextRecover]_vars

(***************************************************************************)
(* One call of scrape_documents, from its first line to its return or to   *)
(* the exception that leaves it.                                           *)
(***************************************************************************)
FirstScrape == calls = 0 /\ StartScrape

NextCall ==
    FirstScrape \/ FetchOk \/ FetchNotOk \/ FetchTimeout \/ FetchError

SpecCall == InitFetch /\ [][NextCall]_vars

(***************************************************************************)
(* The claims about the reconciliation.                                    *)
(***************************************************************************)
\* the corpus entries that pass each of the six filters for the row
Survivors(row, corpus) ==
    {k \in 1..Len(corpus) :
        /\ Stage1(corpus[k], row) /\ Stage2(corpus[k], row)
        /\ Stage3(corpus[k], row) /\ Stage4(corpus[k], row)
        /\ Stage5(corpus[k], row) /\ Stage6(corpus[k], row)}

\* the corpus entries from which the file's name can be derived
Derivers(filename, corpus) ==
    {k \in 1..Len(corpus) :
        \E i \in 1..Len(Languages) :
            get_fnames_from_meta_dict(corpus[k])[i] = filename}

\* C1: the match returns a corpus record only when exactly one entry
\* survives the six filters, and then that entry; with no survivor or with
\* several it returns the empty record, never one of the candidates.
C1_ExactlyOneOrUnresolved ==
    rpc = "matched" =>
        LET surv == Survivors(document_row[1], metadata)
        IN  IF Cardinality(surv) = 1
            THEN meta = <<metadata[CHOOSE k \in surv : TRUE]>>
            ELSE meta = <<>>

\* C1, its case: two records both derive the file's name, nothing is returned
C1_Witness ==
    /\ rpc = "matched"
    /\ Cardinality(Survivors(document_row[1], metadata)) = 2
    /\ Cardinality(Derivers(document_row[1].filename, metadata)) = 2
    /\ meta = <<>>

\* C2: when exactly one corpus record derives the file's name, the match
\* returns that record, whatever its revision and its number.
C2_UniqueDeriverMatched ==
    rpc = "matched" =>
        LET d == Derivers(document_row[1].filename, metadata)
        IN  Cardinality(d) = 1 => meta = <<metadata[CHOOSE k \in d : TRUE]>>

\* C17, as stated: for a row that is unresolved (no candidate or several)
\* each of the nine joined fields is null; a joined field has a value only
\* for a row whose filter chain left exactly one candidate.
C17_UnresolvedFieldsNull ==
    rpc = "matched" =>
        \A f \in JoinedFields :
            document_row[1][f] # <<>> =>
                Cardinality(Survivors(document_row[1], metadata)) = 1

\* C17, amended: for a row that is unresolved the eight fields read with
\* get are null and parties is the empty string, the join of no name; a
\* value taken from a record of the corpus is there only for a row whose
\* filter chain left exactly one candidate, and it is that candidate's.
C17_UnresolvedFieldsEmpty ==
    rpc = "matched" =>
        LET surv == Survivors(document_row[1], metadata)
        IN  IF Cardinality(surv) = 1
            THEN LET m == metadata[CHOOSE k \in surv : TRUE]
                 IN  /\ document_row[1].paper_id = <<m.Paper_id>>
                     /\ document_row[1].meeting_type = <<m.Meeting_type>>
                     /\ document_row[1].meeting_year = <<m.Meeting_year>>
                     /\ document_row[1].paper_name = <<m.Name>>
                     /\ document_row[1].parties = <<"Chile, Peru">>
                     /\ document_row[1].meeting_id = <<>>
            ELSE /\ \A f \in JoinedFields \ {"parties"} :
                        document_row[1][f] = <<>>
                 /\ document_row[1].parties = <<"">>

\* C17, its case: two candidates are left, and nothing of either is joined
C17_Witness ==
    /\ rpc = "matched"
    /\ Cardinality(Survivors(document_row[1], metadata)) = 2
    /\ document_row[1].paper_id = <<>>
    /\ document_row[1].parties = <<"">>

RECURSIVE StrToInt(_)
\* int(s) for a string of digits
StrToInt(s) ==
    IF Len(s) = 0 THEN 0
    ELSE 10 * StrToInt(SubSeq(s, 1, Len(s) - 1))
            + (CHOOSE d \in 0..9 : Char("0123456789", d + 1) = Char(s, Len(s)))

\* C3: the parse of a filename built from a record gives back the record's
\* type, meeting code, abbreviation, number (as the value of the digits),
\* revision (an int, 0 without a rev segment) and the language.
C3_RoundTrip ==
    npc = "parsed" =>
        /\ Len(rows) = Len(Languages)
        /\ \A i \in 1..Len(Languages) :
            \E k \in 1..Len(rows) :
                /\ rows[k].filename = LinkFname(links[i])
                /\ rows[k].extension = wp_info.Type
                /\ rows[k].meeting
                       = wp_info.Meeting_type \o wp_info.Meeting_number
                /\ rows[k].paper_type_abbreviation = wp_info.Abbreviation
                /\ rows[k].paper_number # ""
                /\ StrToInt(rows[k].paper_number) = wp_info.Number
                /\ rows[k].paper_revision = PyInt(wp_info.Revision)
                /\ rows[k].paper_language_abbreviation = Languages[i]

\* {number:03d}
Pad3(n) ==
    IF n < 10 THEN "00" \o IntToStr(n)
    ELSE IF n < 100 THEN "0" \o IntToStr(n)
    ELSE IntToStr(n)

\* {meeting_type}{meeting_number}_{abbreviation}{number:03d}
\*     [_rev{revision}]_{language}.{type}
SchemeName(wp, language) ==
    wp.Meeting_type \o wp.Meeting_number \o "_" \o wp.Abbreviation
        \o Pad3(wp.Number)
        \o (IF wp.Revision > 0 THEN "_rev" \o IntToStr(wp.Revision) ELSE "")
        \o "_" \o language \o "." \o wp.Type

\* https://documents.ats.aq/{meeting_type}{meeting_number}/{abbreviation}/
SchemeBase(wp) ==
    "https://documents.ats.aq/" \o wp.Meeting_type \o wp.Meeting_number
        \o "/" \o wp.Abbreviation \o "/"

\* the links are the four of the scheme, in the order e, s, f, r, and
\* nothing has been requested
FourLinksOfScheme ==
    npc \in {"linked", "parsed"} =>
        /\ Len(links) = 4
        /\ \A i \in 1..4 :
            links[i] = SchemeBase(wp_info)
                           \o SchemeName(wp_info, <<"e", "s", "f", "r">>[i])
        /\ requests = <<>>
        /\ page_requests = <<>>

\* C12: for a well-formed record construct_document_links returns exactly 4
\* URLs, one per language in the order e, s, f, r, each
\* https://documents.ats.aq/{meeting}/{abbreviation}/{filename} with the
\* filename of the naming scheme (number padded to 3 digits, the revision
\* segment only when there is one); it requests nothing and leaves the
\* record as it was.
C12_FourLinksInOrder == [](FourLinksOfScheme) /\ [][wp_info' = wp_info]_vars

\* C12, its case: a record with a one-digit number and a revision
C12_Witness ==
    /\ npc = "linked"
    /\ wp_info.Number = 7
    /\ wp_info.Revision = 2
    /\ links[1] = "https://documents.ats.aq/ATCM12/wp/ATCM12_wp007_rev2_e.pdf"
    /\ links[4] = "https://documents.ats.aq/ATCM12/wp/ATCM12_wp007_rev2_r.pdf"

\* the parts of a link's filename between the underscores, the language
\* and the extension left out
NameTokens(link) ==
    LET parts == Split(LinkFname(link), "_")
    IN  {parts[k] : k \in 1..(Len(parts) - 1)}

\* a part that is rev followed by something
IsRevToken(tok) == Len(tok) >= 3 /\ SubSeq(tok, 1, 3) = "rev"

\* C13: the 4 filenames of a record carry a rev{revision} token if and only
\* if its revision is greater than 0: none of them has a rev token when the
\* revision is 0, each has rev2 when it is 2.
C13_RevTokenIffRevised ==
    npc \in {"linked", "parsed"} =>
        \A i \in 1..Len(links) :
            IF wp_info.Revision > 0
            THEN {t \in NameTokens(links[i]) : IsRevToken(t)}
                     = {"rev" \o IntToStr(wp_info.Revision)}
            ELSE /\ {t \in NameTokens(links[i]) : IsRevToken(t)} = {}
                 /\ ~Contains("rev", LinkFname(links[i]))

\* C13, its case: a record without revision, and its Russian variant
C13_Witness ==
    /\ npc = "linked"
    /\ wp_info.Revision = 0
    /\ wp_info.Number = 45
    /\ LinkFname(links[4]) = "CEP4_ip045_r.doc"

\* C26: the two derivations of the filenames agree: for each of the four
\* languages the last path segment of the link that construct_document_links
\* resolves, which is the name construct_document_outpath gives the file
\* on disk, is the filename get_fnames_from_meta_dict derives at the same
\* index.
C26_DerivationsAgree ==
    npc \in {"linked", "parsed"} =>
        /\ Len(links) = Len(Languages)
        /\ Len(get_fnames_from_meta_dict(wp_info)) = Len(Languages)
        /\ \A i \in 1..Len(Languages) :
            /\ LinkFname(links[i]) = get_fnames_from_meta_dict(wp_info)[i]
            /\ construct_document_outpath(RawDir, links[i])
                   = RawDir \o "/" \o get_fnames_from_meta_dict(wp_info)[i]

\* C26, its case: the links of a revised record whose number is padded
C26_Witness ==
    /\ npc = "linked"
    /\ wp_info.Number = 7
    /\ wp_info.Revision = 10
    /\ wp_info.Type = "doc"
    /\ LinkFname(links[4]) = "CEP4_ip007_rev10_r.doc"
    /\ get_fnames_from_meta_dict(wp_info)[4] = "CEP4_ip007_rev10_r.doc"

\* the revision number a filename encodes: the digits of its rev segment,
\* 0 when it has none
EncodedRevision(filename) ==
    IF Contains("_rev", filename)
    THEN StrToInt(FirstDigits(
             SelectSeq(Split(filename, "_"), LAMBDA x : Contains("rev", x))[1]))
    ELSE 0

\* C19: stage 5 of the filter chain keeps a record if and only if its
\* revision is the revision number that the artifact's filename encodes (0
\* without a rev segment), the artifact's revision being the value that
\* get_doc_df parsed from the filename.
C19_Stage5KeepsEqualRevision ==
    rpc \in {"row", "matched"} =>
        \A k \in 1..Len(metadata) :
            Stage5(metadata[k], document_row[1])
                <=> metadata[k].Revision
                        = EncodedRevision(document_row[1].filename)

\* C20: stage 3 of the filter chain keeps a record if and only if its
\* number is the value of the digits parsed for the artifact's paper number,
\* leading zeros ignored, the number 0 included.
C20_Stage3KeepsEqualNumber ==
    rpc \in {"row", "matched"} =>
        \A k \in 1..Len(metadata) :
            Stage3(metadata[k], document_row[1])
                <=> metadata[k].Number
                        = StrToInt(document_row[1].paper_number)

(***************************************************************************)
(* The claims about scrape_documents.                                      *)
(***************************************************************************)
\* the paths of the links in a sequence
OutPaths(ls) == {construct_document_outpath(OutDir, ls[k]) : k \in 1..Len(ls)}

\* the call before this one requested something, wrote a file for each of
\* its requests and returned
PrevAllWritten ==
    /\ prev.pc = "returned"
    /\ OutPaths(prev.requests) \subseteq prev.wrote

\* C4, as stated: with skip-existing enabled the second call for the same
\* record and directory issues no GET request, whatever the first call's
\* requests were answered with.
C4_SecondCallNoRequests ==
    (ignore_existing /\ calls >= 2) => requests = <<>>

\* C4, amended: with skip-existing enabled a later call for the same record
\* and directory issues no GET for a variant whose file the call before it
\* wrote, and no GET at all when the call before it returned having written
\* a file for each of its requests.
C4_SecondCallSkipsWritten ==
    (ignore_existing /\ calls >= 2) =>
        /\ OutPaths(requests) \cap prev.wrote = {}
        /\ PrevAllWritten => requests = <<>>

\* C4, its case: a first call whose requests were all answered with bytes,
\* then a second call that returned without a request
C4_Witness ==
    /\ ignore_existing
    /\ calls = 2
    /\ fpc = "returned"
    /\ Len(prev.requests) = Len(Languages)
    /\ PrevAllWritten
    /\ requests = <<>>

\* C5: with skip-existing enabled a call neither requests nor keeps for a
\* request any variant whose file was in the directory when the call
\* started: the filter has run before the first request.
C5_NoRequestForExisting ==
    (ignore_existing /\ fpc \in {"fetching", "returned", "raised"}) =>
        \A l \in {requests[k] : k \in 1..Len(requests)}
                    \cup {doc_links[k] : k \in 1..Len(doc_links)} :
            LinkFname(l) \notin DOMAIN start_dir

\* C5, its case: some variants were there, the others were requested
C5_Witness ==
    /\ ignore_existing
    /\ fpc = "returned"
    /\ calls = 1
    /\ \E i, j \in 1..Len(Languages) :
        /\ LinkFname(construct_document_links(paper)[i]) \in DOMAIN start_dir
        /\ LinkFname(construct_document_links(paper)[j]) \notin DOMAIN start_dir
    /\ Len(requests) + Cardinality(DOMAIN start_dir) - 1 = Len(Languages)

\* the links the call set out to request
KeptLinks ==
    IF ignore_existing
    THEN FilterExisting(OutDir, construct_document_links(paper),
                        ListPaths(OutDir, start_dir))
    ELSE construct_document_links(paper)

\* C11: a timeout on the GET of one variant is recovered in the call: no
\* file is written for the variant, its URL is not requested again in the
\* call, no exception leaves scrape_documents and the remaining variants
\* are still requested.  In the state: a timed-out URL has no file written
\* by the call and is in its requests once; the requests and the links
\* still to request are the links the call set out with; a call that
\* raised did so at its last request, which did not time out; while links
\* are left and nothing was raised the loop goes on.
C11_TimeoutRecovered ==
    calls >= 1 =>
        /\ \A u \in timed_out :
            /\ construct_document_outpath(OutDir, u) \notin wrote
            /\ Cardinality({k \in 1..Len(requests) : requests[k] = u}) = 1
        /\ requests \o doc_links = KeptLinks
        /\ fpc = "raised" => Last(requests) \notin timed_out
        /\ fpc = "returned" => doc_links = <<>>
        /\ (doc_links # <<>> /\ fpc # "raised") => fpc = "fetching"

\* C11, its case: a variant timed out, the call went on to the last variant,
\* wrote its file and returned
C11_Witness ==
    /\ calls = 1
    /\ fpc = "returned"
    /\ Len(requests) = Len(Languages)
    /\ \E k \in 1..(Len(requests) - 1) : requests[k] \in timed_out
    /\ construct_document_outpath(OutDir, Last(requests)) \in wrote

\* the bytes of a document as a server sent them, whole
WholeBodies == (Bodies \ {""}) \cup {"%PDF-old"}

\* the files of the directory that are variants of the record
VariantFiles ==
    {f \in DOMAIN dir :
        \E i \in 1..Len(Languages) :
            f = LinkFname(construct_document_links(paper)[i])}

\* C18: when a call has been killed, at any point and also between the
\* creation of an output file and the end of its write, and the call made
\* again with skip-existing has returned with each of its requests answered
\* and written, every variant file in the directory holds the whole bytes
\* of a response: no file is left with a part of them and skipped.
C18_NoPartialFileAfterRerun ==
    (/\ ignore_existing
     /\ calls >= 2
     /\ prev.pc = "killed"
     /\ fpc = "returned"
     /\ OutPaths(requests) \subseteq wrote)
        => \A f \in VariantFiles : dir[f].bytes \in WholeBodies

\* one turn of the loop in which the GET is answered with r.ok and the
\* body b: the file at the link's output path holds exactly b afterwards
OkStepWrites(b) ==
    Fetch([kind |-> "ok", body |-> b]) =>
        LET f == LinkFname(Head(doc_links))
        IN  /\ f \in DOMAIN dir'
            /\ dir'[f] = Bytes(b)

\* one turn of the loop in which the GET is answered without r.ok: the
\* directory is as it was
NotOkStepWritesNothing ==
    Fetch([kind |-> "status", body |-> ""]) => dir' = dir

\* C21, as stated: for every variant requested and answered with a
\* successful response the response's bytes are written verbatim to the
\* computed output path, for every body, an empty one included; for a
\* non-success status no file is written.
C21_EveryOkBodyWritten ==
    [][(\A b \in Bodies : OkStepWrites(b)) /\ NotOkStepWritesNothing]_vars

\* C21, amended: a successful response with a non-empty body is written
\* verbatim to the computed output path, and the file holds exactly those
\* bytes for the rest of the call; for a successful response with an empty
\* body and for a non-success status no file is written and the directory
\* is as it was.
C21_NonEmptyOkBodyWritten ==
    /\ [](\A p \in wrote :
            /\ BaseName(p) \in DOMAIN dir
            /\ dir[BaseName(p)].bytes \in Bodies \ {""})
    /\ [][/\ \A b \in Bodies \ {""} :
               /\ OkStepWrites(b)
               /\ Fetch([kind |-> "ok", body |-> b]) =>
                    construct_document_outpath(OutDir, Head(doc_links))
                        \in wrote'
          /\ Fetch([kind |-> "ok", body |-> ""]) =>
               (dir' = dir /\ wrote' = wrote)
          /\ NotOkStepWritesNothing]_vars

\* C21, its case: a call without skip-existing that has overwritten a file
\* of an earlier run with a response's bytes and has written nothing for
\* another of its requests
C21_Witness ==
    /\ calls = 1
    /\ fpc = "returned"
    /\ ~ignore_existing
    /\ \E p \in wrote :
        /\ BaseName(p) \in DOMAIN start_dir
        /\ start_dir[BaseName(p)] = Bytes("%PDF-old")
        /\ dir[BaseName(p)] = Bytes("%PDF-new")
    /\ \E k \in 1..Len(requests) :
        /\ construct_document_outpath(OutDir, requests[k]) \notin wrote
        /\ LinkFname(requests[k]) \notin DOMAIN dir

\* C28: with skip-existing a call of scrape_documents leaves every file
\* that was in the directory when it started as it was, deletes nothing,
\* and the files it adds are named by the last path segment of one of the
\* record's four links; it writes no file that was there at its start.
C28_FrameOfFetch ==
    (ignore_existing /\ calls >= 1) =>
        /\ \A f \in DOMAIN start_dir :
            f \in DOMAIN dir /\ dir[f] = start_dir[f]
        /\ \A f \in DOMAIN dir \ DOMAIN start_dir :
            \E i \in 1..Len(Languages) :
                f = LinkFname(construct_document_links(paper)[i])
        /\ \A q \in wrote : BaseName(q) \notin DOMAIN start_dir

\* C28, its case: the call found the snapshot and a document of an earlier
\* run, has written a file for another variant and has returned; the
\* snapshot and the earlier document are as they were
C28_Witness ==
    /\ ignore_existing
    /\ calls = 1
    /\ fpc = "returned"
    /\ \E q \in wrote : dir[BaseName(q)] = Bytes("%PDF-new")
    /\ \E f \in DOMAIN start_dir : dir[f] = Bytes("%PDF-old")
    /\ dir[SnapshotName] = Json(<<paper>>)
    /\ Cardinality(DOMAIN dir) > Cardinality(DOMAIN start_dir)

(***************************************************************************)
(* scrape_working_papers_listing, as a function of the server's answers.   *)
(* A crawl is a record [current_page, url, papers, pc, result]; CrawlStep  *)
(* is one turn of the loop of lines 181-193, and the return of line 194    *)
(* when the loop ends.                                                     *)
(***************************************************************************)
construct_wp_url(page) ==
    "https://www.ats.aq/devAS/Meetings/SearchDocDatabase?page=" \o IntToStr(page)

\* a loop that goes on whenever the pager names another page
PagerDiffers(next_page, page) == next_page # page

\* a loop that goes on while the pager does not go back
PagerNotBehind(next_page, page) == next_page >= page

\* next_page > current_page
PagerAdvances(next_page, page) == next_page > page

\* a crawl that gives back what it has when a page fails
CrawlStepKeepPartial(st, resp) ==
    IF resp.kind = "page"
    THEN LET all == st.papers \o resp.payload
         IN  IF PagerAdvances(resp.next, st.current_page)
             THEN [st EXCEPT !.papers = all, !.current_page = resp.next,
                             !.url = <<construct_wp_url(resp.next)>>]
             ELSE [st EXCEPT !.papers = all, !.url = <<>>,
                             !.pc = "returned", !.result = <<all>>]
    ELSE [st EXCEPT !.url = <<>>, !.pc = "returned", !.result = <<st.papers>>]

\* the answers to a listing request: a JSON body with payload and
\* pager.next; a request or decoding failure (requests.get or json.loads
\* raises, or the body has no payload); a body whose payload is read and
\* whose pager cannot be (lines 188-189 raise)
CrawlStep(st, resp) ==
    IF resp.kind = "failure"
    THEN [st EXCEPT !.pc = "raised"]
    ELSE IF resp.kind = "nopager"
    THEN [st EXCEPT !.papers = st.papers \o resp.payload, !.pc = "raised"]
    ELSE LET all == st.papers \o resp.payload
         IN  IF PagerAdvances(resp.next, st.current_page)
             THEN [st EXCEPT !.papers = all, !.current_page = resp.next,
                             !.url = <<construct_wp_url(resp.next)>>]
             ELSE [st EXCEPT !.papers = all, !.url = <<>>,
                             !.pc = "returned", !.result = <<all>>]

(***************************************************************************)
(* One call of scrape_working_papers_listing(starting_page, logger).       *)
(***************************************************************************)
MaxPage == 3
MaxPayload == 1

Payloads == UNION {[1..n -> FetchRecords] : n \in 0..MaxPayload}

InitCrawl ==
    /\ MeasuresOff
    /\ current_page \in 1..MaxPage
    /\ url = <<>>
    /\ crawled = <<>>
    /\ page_requests = <<>>
    /\ responses = <<>>
    /\ cpc = "idle"
    /\ crawl_result = <<>>
    /\ ReconOffAll
    /\ FetchOff
    /\ MainOff

CrawlState ==
    [current_page |-> current_page, url |-> url, papers |-> crawled,
     pc |-> cpc, result |-> crawl_result]

SetCrawl(st) ==
    /\ current_page' = st.current_page
    /\ url' = st.url
    /\ crawled' = st.papers
    /\ cpc' = st.pc
    /\ crawl_result' = st.result

\* lines 177-180: the first URL is built from starting_page
StartCrawl ==
    /\ cpc = "idle"
    /\ url' = <<construct_wp_url(current_page)>>
    /\ crawled' = <<>>
    /\ cpc' = "requesting"
    /\ UNCHANGED <<current_page, page_requests, responses, crawl_result,
                   reconVars, namingVars, fetchVars, mainVars, measureVars>>

\* the request of line 183 is answered with a page
CrawlPage ==
    /\ cpc = "requesting"
    /\ \E payload \in Payloads, next \in 0..MaxPage :
        /\ SetCrawl(CrawlStep(CrawlState,
                [kind |-> "page", payload |-> payload, next |-> next]))
        /\ responses' = Append(responses,
                [page |-> current_page, payload |-> payload, next |-> next])
    /\ page_requests' = Append(page_requests, url[1])
    /\ UNCHANGED <<reconVars, namingVars, fetchVars, mainVars, measureVars>>

\* the request fails, or its body cannot be decoded
CrawlFailure ==
    /\ cpc = "requesting"
    /\ SetCrawl(CrawlStep(CrawlState,
            [kind |-> "failure", payload |-> <<>>, next |-> 0]))
    /\ page_requests' = Append(page_requests, url[1])
    /\ UNCHANGED <<responses, reconVars, namingVars, fetchVars, mainVars,
                   measureVars>>

\* the body has a payload and no usable pager
CrawlPagerFailure ==
    /\ cpc = "requesting"
    /\ \E payload \in Payloads :
        SetCrawl(CrawlStep(CrawlState,
            [kind |-> "nopager", payload |-> payload, next |-> 0]))
    /\ page_requests' = Append(page_requests, url[1])
    /\ UNCHANGED <<responses, reconVars, namingVars, fetchVars, mainVars,
                   measureVars>>

NextCrawl == StartCrawl \/ CrawlPage \/ CrawlFailure \/ CrawlPagerFailure

SpecCrawl == InitCrawl /\ [][NextCrawl]_vars

(***************************************************************************)
(* The claims about the listing crawl.                                     *)
(***************************************************************************)
RECURSIVE PayloadsOf(_)
\* the payloads of the pages processed, one after the other
PayloadsOf(rs) ==
    IF rs = <<>> THEN <<>> ELSE rs[1].payload \o PayloadsOf(Tail(rs))

\* a request of the crawl was not answered with a page
CrawlFailed == Len(page_requests) > Len(responses)

\* C7: after a page p whose pager has next <= p the crawl returns what it
\* accumulated and requests nothing more; after a page whose pager has
\* next > p the next request is for page next.
C7_StopsWhenPagerDoesNotAdvance ==
    /\ Len(page_requests) \in {Len(responses), Len(responses) + 1}
    /\ cpc \in {"requesting", "returned"} => crawled = PayloadsOf(responses)
    /\ \A k \in 1..Len(responses) :
        /\ page_requests[k] = construct_wp_url(responses[k].page)
        /\ IF responses[k].next > responses[k].page
           THEN IF k < Len(responses)
                THEN responses[k + 1].page = responses[k].next
                ELSE \/ /\ cpc = "requesting"
                        /\ url = <<construct_wp_url(responses[k].next)>>
                        /\ Len(page_requests) = k
                     \/ /\ cpc = "raised"
                        /\ page_requests[k + 1]
                               = construct_wp_url(responses[k].next)
           ELSE /\ k = Len(responses)
                /\ Len(page_requests) = k
                /\ cpc = "returned"
                /\ crawl_result = <<PayloadsOf(responses)>>

\* C7, its case: page 3 reports next = 2 and the crawl has returned
C7_Witness ==
    /\ cpc = "returned"
    /\ Len(responses) >= 2
    /\ Last(responses).page = 3
    /\ Last(responses).next = 2
    /\ Last(page_requests) = construct_wp_url(3)

\* C10: a request or decoding failure on a page ends the crawl with the
\* exception: nothing is returned, not even the pages accumulated so far,
\* no further page is requested and no file is written.
C10_FailureAbortsCrawl ==
    /\ CrawlFailed =>
        /\ cpc = "raised"
        /\ crawl_result = <<>>
        /\ Len(page_requests) = Len(responses) + 1
    /\ crawl_result # <<>> => (cpc = "returned" /\ ~CrawlFailed)
    /\ DOMAIN dir = {}

\* C10, its case: a page fails after other pages were accumulated
C10_Witness ==
    /\ CrawlFailed
    /\ cpc = "raised"
    /\ Len(responses) >= 1
    /\ crawled # <<>>

\* the page number a listing URL asks for
PageOf(u) == StrToInt(Last(Split(u, "=")))

\* the page the crawl started with
StartingPage ==
    IF page_requests = <<>> THEN current_page ELSE PageOf(page_requests[1])

\* the page numbers requested go up from each request to the next
PagesIncrease ==
    \A j, k \in 1..Len(page_requests) :
        j < k => PageOf(page_requests[j]) < PageOf(page_requests[k])

\* every pager.next the server has returned is at most M
NextsAtMost(M) == \A k \in 1..Len(responses) : responses[k].next <= M

\* C23, as stated: the page numbers a crawl requests are strictly
\* increasing, so no page is requested twice, whatever the pagers say; for
\* every M, a crawl whose pagers all named pages up to M has made at most
\* M - starting_page + 1 requests when it has returned.
C23_BoundForEveryM ==
    /\ PagesIncrease
    /\ \A M \in 0..MaxPage :
        (cpc = "returned" /\ NextsAtMost(M))
            => Len(page_requests) <= M - StartingPage + 1

\* C23, amended: the page numbers a crawl requests are strictly
\* increasing, so no page is requested twice, whatever the pagers say; for
\* every M that is at least starting_page, a crawl whose pagers all name
\* pages up to M makes at most M - starting_page + 1 requests, and has
\* ended when it has made that many.  The first request is made whatever
\* M is: a crawl whose first pager names a page below starting_page has
\* made one request and ends there.
C23_PagesStrictlyIncrease ==
    /\ PagesIncrease
    /\ \A M \in 0..MaxPage :
        NextsAtMost(M) =>
            /\ M >= StartingPage =>
                /\ Len(page_requests) <= M - StartingPage + 1
                /\ cpc = "requesting"
                       => Len(page_requests) <= M - StartingPage
            /\ (M < StartingPage /\ responses # <<>>) =>
                /\ Len(page_requests) = 1
                /\ cpc = "returned"
    /\ cpc = "requesting" => url = <<construct_wp_url(current_page)>>

\* C23, its case: a crawl from page 1 that was led through every page up
\* to the last, whose pager named the same page again, and has returned
C23_Witness ==
    /\ cpc = "returned"
    /\ StartingPage = 1
    /\ Len(page_requests) = MaxPage
    /\ Last(responses).next = Last(responses).page
    /\ \E k \in 1..Len(responses) : responses[k].next = MaxPage

(***************************************************************************)
(* scrape_dataset.main: load_all_metadata, the crawl when nothing was      *)
(* loaded, the shuffle and the loop over the records.                      *)
(***************************************************************************)
\* lines 40-43: the json files whose path contains papers_metadata
IsMetaFile(path) == EndsWith(path, ".json") /\ Contains("papers_metadata", path)

RECURSIVE ReadAll(_, _)
\* lines 45-50: papers += json.load(f), file after file
ReadAll(paths, d) ==
    IF paths = <<>> THEN <<>>
    ELSE d[BaseName(paths[1])].json \o ReadAll(Tail(paths), d)

\* the function returns papers; dedupe (line 52) is computed and logged
load_all_metadata(data_dir, d, listing) ==
    LET files == [k \in 1..Len(listing) |-> data_dir \o "/" \o listing[k]]
        meta_files == SelectSeq(files, IsMetaFile)
    IN  ReadAll(meta_files, d)

\* line 210: if not papers
NoPapers(ps) == ps = <<>>

\* lines 227 and 230 read paper['Paper_id']
HasPaperId(p) == "Paper_id" \in DOMAIN p

(***************************************************************************)
(* The script scrape_dataset.py run on a directory, and the body of main   *)
(* (lines 200-230) on a directory that holds snapshots of the metadata.    *)
(***************************************************************************)
MaxPapers == 2

SnapshotNames == <<SnapshotName, "2021-06-30-12-00-00_papers_metadata.json">>

PaperA ==
    [Paper_id |-> 1, Meeting_type |-> "ATCM", Meeting_number |-> "12",
     Abbreviation |-> "wp", Number |-> 7, Revision |-> 0, Type |-> "pdf"]
\* a record without its Paper_id
PaperNoId ==
    [Meeting_type |-> "ATCM", Meeting_number |-> "12",
     Abbreviation |-> "ip", Number |-> 7, Revision |-> 0, Type |-> "pdf"]
\* a record without its Type
PaperNoType ==
    [Paper_id |-> 3, Meeting_type |-> "ATCM", Meeting_number |-> "12",
     Abbreviation |-> "ip", Number |-> 7, Revision |-> 0]

MainRecords == {PaperA, PaperNoId, PaperNoType}

RecordLists == UNION {[1..n -> MainRecords] : n \in 0..MaxPapers}

\* no snapshot, one, or two, holding MaxPapers records at most between them
MainDirs ==
    {<<>>}
    \cup {[f \in {SnapshotNames[1]} |-> Json(c)] : c \in RecordLists}
    \cup {[f \in {SnapshotNames[1], SnapshotNames[2]} |->
              IF f = SnapshotNames[1] THEN Json(c[1]) ELSE Json(c[2])] :
          c \in {c \in RecordLists \X RecordLists :
                    Len(c[1]) + Len(c[2]) <= MaxPapers}}

\* random.shuffle(papers): the orders the list can be left in
Shuffles(ps) ==
    {[k \in 1..Len(ps) |-> ps[f[k]]] :
        f \in {g \in [1..Len(ps) -> 1..Len(ps)] :
                  \A a, b \in 1..Len(ps) : a # b => g[a] # g[b]}}

\* the directories the script is run on: those of MainDirs, as they are or
\* with a document that an earlier fetch left
ScriptDirs ==
    MainDirs
    \cup {[f \in DOMAIN d \cup {LinkFname(construct_document_links(PaperA)[1])}
              |-> IF f \in DOMAIN d THEN d[f] ELSE Bytes("%PDF-old")] :
          d \in MainDirs}

\* the state in which nothing of main has run, at position pc
MainAt(dirs, pc) ==
    /\ MeasuresOff
    /\ dir \in dirs
    /\ paper = NoRecord
    /\ ignore_existing = TRUE
    /\ doc_links = <<>>
    /\ existing = {}
    /\ requests = <<>>
    /\ wrote = {}
    /\ fpc = "idle"
    /\ calls = 0
    /\ prev = NoCall
    /\ start_dir = dir
    /\ timed_out = {}
    /\ papers = <<>>
    /\ loaded = <<>>
    /\ idx = 0
    /\ attempted = <<>>
    /\ mpc = pc
    /\ error = ""
    /\ ReconOffAll
    /\ CrawlOff

\* python src/data/scrape_dataset.py OUTPUT_DIR: the module is about to be
\* executed
InitMain == MainAt(ScriptDirs, "module")

\* a module whose decorators are accepted: main runs on the directory, and
\* the GETs for the first record it loaded all time out
RunModuleRunsMain ==
    /\ mpc = "module"
    /\ \E listing \in ListDir(dir) :
        LET ps == load_all_metadata(OutDir, dir, listing)
        IN  /\ loaded' = ps
            /\ papers' = ps
            /\ IF ps = <<>>
               THEN /\ mpc' = "raised"
                    /\ error' = "NameError"
                    /\ UNCHANGED requests
               ELSE /\ mpc' = "done"
                    /\ error' = ""
                    /\ requests' = IF DOMAIN ps[1] = DOMAIN PaperA
                                   THEN construct_document_links(ps[1])
                                   ELSE <<>>
    /\ UNCHANGED <<idx, attempted, reconVars, namingVars, dir, paper,
                   ignore_existing, doc_links, existing, wrote, fpc, calls,
                   prev, start_dir, timed_out, crawlVars, measureVars>>

\* the module is run as a script: lines 197-199 apply click.argument with
\* help=, which click's Argument does not take, and TypeError ends the run
\* before main is defined.  Every run of the script is this one step.
RunModule ==
    /\ mpc = "module"
    /\ mpc' = "raised"
    /\ error' = "TypeError"
    /\ UNCHANGED <<papers, loaded, idx, attempted, reconVars, namingVars,
                   fetchVars, crawlVars, measureVars>>

NextMain == RunModule

SpecMain == InitMain /\ [][NextMain]_vars

\* the function main of lines 200-230 called with output_dir, which no run
\* of the script reaches: its body is about to be executed
InitMainBody == MainAt(MainDirs, "start")

\* line 208
LoadAllMetadata ==
    /\ mpc = "start"
    /\ \E listing \in ListDir(dir) :
        papers' = load_all_metadata(OutDir, dir, listing)
    /\ loaded' = papers'
    /\ mpc' = "loaded"
    /\ UNCHANGED <<idx, attempted, error, reconVars, namingVars, fetchVars,
                   crawlVars, measureVars>>

\* lines 210-212: nothing was loaded, and the name absolute_output_path,
\* which nothing binds, is read: NameError, before the crawl
MainNoMetadata ==
    /\ mpc = "loaded"
    /\ NoPapers(papers)
    /\ mpc' = "raised"
    /\ error' = "NameError"
    /\ UNCHANGED <<papers, loaded, idx, attempted, reconVars, namingVars,
                   fetchVars, crawlVars, measureVars>>

\* lines 222-223
Shuffle ==
    /\ mpc = "loaded"
    /\ ~NoPapers(papers)
    /\ papers' \in Shuffles(papers)
    /\ mpc' = "loop"
    /\ UNCHANGED <<loaded, idx, attempted, error, reconVars, namingVars,
                   fetchVars, crawlVars, measureVars>>

\* lines 224-230: the loop takes up the next record.  Without a Paper_id
\* line 227 raises KeyError and the handler, which reads it again at line
\* 230, raises it out of main.  An exception of scrape_documents is caught:
\* the loop goes on from fpc = "raised" as from "returned".
MainNextPaper ==
    /\ mpc = "loop"
    /\ fpc # "fetching"
    /\ idx < Len(papers)
    /\ idx' = idx + 1
    /\ attempted' = Append(attempted, idx + 1)
    /\ IF HasPaperId(papers[idx + 1])
       THEN /\ SetCall(ScrapeStart(papers[idx + 1], dir, TRUE))
            /\ paper' = papers[idx + 1]
            /\ start_dir' = dir
            /\ timed_out' = {}
            /\ UNCHANGED <<mpc, error>>
       ELSE /\ mpc' = "raised"
            /\ error' = "KeyError"
            /\ UNCHANGED <<dir, paper, doc_links, existing, requests, wrote,
                           fpc, start_dir, timed_out>>
    /\ UNCHANGED <<papers, loaded, ignore_existing, calls, prev, reconVars,
                   namingVars, crawlVars, measureVars>>

\* a GET of the record in hand times out
MainFetchTimeout ==
    /\ Fetch([kind |-> "timeout", body |-> ""])
    /\ UNCHANGED timed_out

\* the loop is through
MainDone ==
    /\ mpc = "loop"
    /\ fpc # "fetching"
    /\ idx = Len(papers)
    /\ mpc' = "done"
    /\ UNCHANGED <<papers, loaded, idx, attempted, error, reconVars,
                   namingVars, fetchVars, crawlVars, measureVars>>

NextMainBody ==
    \/ LoadAllMetadata \/ MainNoMetadata \/ Shuffle \/ MainNextPaper
    \/ FetchOk \/ FetchNotOk \/ MainFetchTimeout \/ FetchError
    \/ MainDone

SpecMainBody == InitMainBody /\ [][NextMainBody]_vars

(***************************************************************************)
(* The claims about main.                                                  *)
(***************************************************************************)
\* no record is in the list twice
NoRepeats(ps) == \A a, b \in 1..Len(ps) : a # b => ps[a] # ps[b]

\* the directory holds a snapshot with a record in it
HasSnapshot ==
    \E f \in DOMAIN dir :
        IsMetaFile(OutDir \o "/" \o f) /\ dir[f].json # <<>>

\* C6: the loop takes up every record of the batch, once each and in
\* order, whatever fails while a record is processed: when the run has
\* ended, no record is left out.
C6_EveryRecordAttempted ==
    (mpc \in {"done", "raised"} /\ loaded # <<>>) =>
        attempted = [k \in 1..Len(papers) |-> k]

\* C8: the corpus the metadata stage hands on holds one entry for each
\* distinct record: a record found in two snapshots is in it once.
C8_CorpusDeduplicated ==
    mpc # "start" => NoRepeats(loaded)

\* C9: with a snapshot that holds a record in the directory, a run issues
\* no listing request, writes no snapshot, and goes on to the loop over the
\* records it loaded.
C9_SnapshotShortCircuits ==
    (HasSnapshot /\ mpc \notin {"module", "start"}) =>
        /\ page_requests = <<>>
        /\ cpc = "off"
        /\ \E listing \in ListDir(dir) :
            load_all_metadata(OutDir, dir, listing) = loaded
        /\ loaded # <<>>
        /\ error \notin {"NameError", "TypeError"}
        /\ mpc # "loaded" => papers \in Shuffles(loaded)

\* the document URLs a run requests on a directory without snapshot and
\* without files: the script ends with TypeError before main is defined,
\* and requests nothing
FreshRunRequests == {}

RaisedAtGet == fpc = "raised" /\ requests # <<>>

\* C22: a transport error other than a timeout on the GET of a variant
\* leaves scrape_documents: the call ends there with the later variants
\* not requested, the files it wrote for the earlier variants are in the
\* directory as written, the exception does not end main, and main's next
\* step is the next record of the batch, or the end of the loop after the
\* last one.
C22_ErrorPropagatesAndIsCaught ==
    /\ [](RaisedAtGet =>
            /\ requests \o doc_links = KeptLinks
            /\ \A q \in wrote :
                /\ BaseName(q) \in DOMAIN dir
                /\ dir[BaseName(q)].bytes \in Bodies \ {""}
            /\ mpc = "loop" => ENABLED (MainNextPaper \/ MainDone))
    /\ [][/\ Fetch([kind |-> "error", body |-> ""]) =>
               /\ fpc' = "raised"
               /\ doc_links' = Tail(doc_links)
               /\ dir' = dir
               /\ wrote' = wrote
               /\ mpc' = "loop"
          /\ (RaisedAtGet /\ mpc = "loop") =>
               /\ dir' = dir
               /\ IF idx < Len(papers)
                  THEN attempted' = Append(attempted, idx + 1)
                  ELSE mpc' = "done"]_vars

\* C22, its case: the GET of a later variant of the first record has
\* raised after a file was written for an earlier one, with variants left
\* that the call has not requested, and a second record waits in the batch
C22_Witness ==
    /\ mpc = "loop"
    /\ idx = 1
    /\ Len(papers) = 2
    /\ HasPaperId(papers[2])
    /\ RaisedAtGet
    /\ Len(requests) >= 2
    /\ wrote # {}
    /\ doc_links # <<>>

(***************************************************************************)
(* The Reconciler on a raw directory: add_document_features.main loads the *)
(* corpus with its own load_all_metadata (lines 36-62, the text of         *)
(* scrape_dataset.load_all_metadata) and joins it to the document's row.   *)
(***************************************************************************)
\* the content of a snapshot: distinct records
SnapshotCorpora ==
    {c \in UNION {[1..n -> {r \in CorpusRecords : r.Paper_id = 1}] :
                     n \in 1..MaxCorpus} : NoRepeats(c)}

\* the raw directory with one snapshot, and with the same snapshot under a
\* second name beside it
SnapshotDirs ==
    {[f \in {SnapshotNames[k] : k \in 1..n} |-> Json(c)] :
        n \in 1..2, c \in SnapshotCorpora}

InitSnapshots ==
    /\ MeasuresOff
    /\ dir \in SnapshotDirs
    /\ start_dir = dir
    /\ paper = NoRecord
    /\ ignore_existing = TRUE
    /\ doc_links = <<>>
    /\ existing = {}
    /\ requests = <<>>
    /\ wrote = {}
    /\ fpc = "off"
    /\ calls = 0
    /\ prev = NoCall
    /\ timed_out = {}
    /\ metadata = <<>>
    /\ doc_path \in RawDocs
    /\ document_row = <<>>
    /\ meta = <<>>
    /\ rpc = "raw"
    /\ NamingOff
    /\ CrawlOff
    /\ MainOff

\* add_document_features.main, lines 162-168: the corpus is loaded from the
\* raw directory and joined to the row
LoadAndJoin ==
    /\ rpc = "row"
    /\ \E listing \in ListDir(dir) :
        metadata' = load_all_metadata(RawDir, dir, listing)
    /\ meta' = get_best_matching_metadata(document_row[1], metadata')
    /\ document_row' =
           <<join_metadata_to_document_df(document_row[1], metadata')>>
    /\ rpc' = "matched"
    /\ UNCHANGED <<doc_path, namingVars, fetchVars, crawlVars, mainVars,
                   measureVars>>

NextSnapshots == GetDocDf \/ LoadAndJoin

SpecSnapshots == InitSnapshots /\ [][NextSnapshots]_vars

\* the directory with its first snapshot only
OneSnapshot(d) == [f \in {SnapshotNames[1]} |-> d[f]]

\* C27: the outcome of the match for an artifact is the same with the
\* snapshot once in the raw directory and with the same snapshot twice: an
\* artifact matched with one snapshot is matched, to the same record, with
\* two.
C27_RepeatedSnapshotSameMatch ==
    rpc = "matched" =>
        meta = get_best_matching_metadata(DocRow(doc_path),
                   load_all_metadata(RawDir, OneSnapshot(dir),
                       <<SnapshotNames[1]>>))

(***************************************************************************)
(* scrape_measures_dataset.py.  A page is what BeautifulSoup finds in it:  *)
(*   title            the texts of the h1 elements of class title          *)
(*   text             the inner markup of the div elements of class        *)
(*                    text-container                                       *)
(*   characteristics  the ul elements of class characteristics__list, each *)
(*                    the list of its items [title, text]: <<>> when the   *)
(*                    item has no such element, <<t>> for its text         *)
(*   approvals        <<>> without a table of class approvals, <<rows>>    *)
(*                    with one, a row being [th, td]                       *)
(***************************************************************************)
\* the characters str.strip() takes off: those for which str.isspace()
\* holds.  Of these the strings here can hold the ones up to U+00FF: the
\* space, \t, \n, \r, \f, the vertical tab U+000B, the separators
\* U+001C to U+001F, U+0085 and the no-break space U+00A0
IsSpace(c) ==
    c \in {" ", "\n", "\t", "\r", "\f", "", "", "", "",
           "", "", " "}

RECURSIVE LStripSpace(_)
LStripSpace(s) ==
    IF Len(s) > 0 /\ IsSpace(Char(s, 1))
    THEN LStripSpace(SubSeq(s, 2, Len(s))) ELSE s

RECURSIVE RStripSpace(_)
RStripSpace(s) ==
    IF Len(s) > 0 /\ IsSpace(Char(s, Len(s)))
    THEN RStripSpace(SubSeq(s, 1, Len(s) - 1)) ELSE s

\* s.strip()
Strip(s) == RStripSpace(LStripSpace(s))

\* the characters str.lower() changes, of those the strings here can hold:
\* A to Z and the capital letters U+00C0 to U+00DE, without the sign U+00D7
Upper == "ABCDEFGHIJKLMNOPQRSTUVWXYZÀÁÂÃÄÅÆÇÈÉÊËÌÍÎÏÐÑÒÓÔÕÖØÙÚÛÜÝÞ"

\* what it changes them to, place by place
Lowered == "abcdefghijklmnopqrstuvwxyzàáâãäåæçèéêëìíîïðñòóôõöøùúûüýþ"

LowerChar(c) ==
    IF \E k \in 1..Len(Upper) : Char(Upper, k) = c
    THEN Char(Lowered,
              CHOOSE k \in 1..Len(Upper) : Char(Upper, k) = c)
    ELSE c

RECURSIVE Lower(_)
\* s.lower()
Lower(s) ==
    IF Len(s) = 0 THEN s
    ELSE LowerChar(Char(s, 1)) \o Lower(SubSeq(s, 2, Len(s)))

measure_url(n) == "https://www.ats.aq/devAS/Meetings/Measure/" \o IntToStr(n)

\* str() of a div of class text-container
TextContainer(inner) == "<div class=\"text-container\">" \o inner \o "</div>"

\* the text of the first container, or <<>> for None
get_body_text_from_scrape(soup) ==
    IF Len(soup.text) > 0
    THEN <<Strip(Replace(Replace(Replace(TextContainer(soup.text[1]),
                                         "<br/>", "\n"),
                                 "</div>", ""),
                         "<div class=\"text-container\">", ""))>>
    ELSE <<>>

get_approvals_from_scrape(soup) ==
    IF soup.approvals = <<>> THEN <<>>
    ELSE LET trs == SelectSeq(soup.approvals[1],
                              LAMBDA tr : tr.th # <<>> /\ tr.td # <<>>)
         IN  [k \in 1..Len(trs) |->
                 [country |-> Strip(trs[k].th[1]),
                  date |-> Strip(trs[k].td[1])]]

\* the exception get_characteristics_from_scrape ends with, "" when none:
\* [0] of an empty find_all (line 56), .text of a find that gave None
\* (line 60)
CharacteristicsError(soup) ==
    IF soup.characteristics = <<>> THEN "IndexError"
    ELSE IF \E k \in 1..Len(soup.characteristics[1]) :
                soup.characteristics[1][k].title = <<>>
    THEN "AttributeError"
    ELSE ""

\* lines 57-74, for a page on which line 56 and line 60 do not raise
get_characteristics_from_scrape(soup) ==
    LET items == soup.characteristics[1]
        clean == [k \in 1..Len(items) |->
                     [title |-> items[k].title[1],
                      text |-> IF items[k].text # <<>>
                               THEN Strip(items[k].text[1]) ELSE ""]]
        kept == SelectSeq(clean, LAMBDA c : c.text # "")
        Key(c) == Replace(Lower(c.title), " ", "_")
    IN  [key \in {Key(kept[k]) : k \in 1..Len(kept)} |->
            LET last == CHOOSE k \in 1..Len(kept) :
                            /\ Key(kept[k]) = key
                            /\ \A j \in (k + 1)..Len(kept) : Key(kept[j]) # key
            IN  kept[last].text]

\* scrape_measure: what it raises ("" when nothing) and what it returns
\* (<<>> for None, <<info>> for the dict)
scrape_measure(resp) ==
    IF resp.kind = "error"
    THEN [raised |-> "ConnectionError", info |-> <<>>]
    ELSE IF resp.kind = "status"
    THEN [raised |-> "", info |-> <<>>]
    ELSE LET soup == resp.soup
         IN  IF soup.title = <<>>
             THEN [raised |-> "IndexError", info |-> <<>>]
             ELSE IF CharacteristicsError(soup) # ""
             THEN [raised |-> CharacteristicsError(soup), info |-> <<>>]
             ELSE [raised |-> "",
                   info |-> <<[raw_title |-> <<soup.title[1]>>,
                               raw_text |-> get_body_text_from_scrape(soup),
                               characteristics |->
                                   get_characteristics_from_scrape(soup),
                               approvals |->
                                   get_approvals_from_scrape(soup)]>>]

\* datetime.now(): the clock counts half seconds, reading t is second
\* t / 2 of the minute and 0 or 500000 microseconds
Second(t) == t \div 2

Microsecond(t) == (t % 2) * 500000

\* datetime.now().strftime('%Y-%m-%d-%H-%M-%S') at second s of the minute
Timestamp(s) == "2021-03-01-10-00-" \o ZFill(IntToStr(s), 2)

\* datetime.now().isoformat() at second s and microsecond us: the
\* microseconds are printed, with six digits, unless they are 0
IsoFormat(s, us) ==
    "2021-03-01T10:00:" \o ZFill(IntToStr(s), 2)
        \o (IF us = 0 THEN "" ELSE "." \o ZFill(IntToStr(us), 6))

\* a path that names the second of the write and not the id
measure_path_by_time(data_dir, n, t) ==
    data_dir \o "/" \o Timestamp(Second(t)) \o "_measure.json"

\* lines 92-95, the clock read at t (line 94)
construct_measure_path(data_dir, n, t) ==
    data_dir \o "/" \o Timestamp(Second(t)) \o "_measure_" \o IntToStr(n)
        \o ".json"

(***************************************************************************)
(* One run of scrape_measures_dataset.main over the ids 1..MaxMeasure      *)
(* (range(1, 1000) in the source), on a directory that can hold what an    *)
(* earlier run wrote.                                                      *)
(***************************************************************************)
MaxMeasure == 2
MaxClock == 2

MeasuresDir == "data/raw/measures"

SoupFull ==
    [title |-> <<"Measure 1 (2003)">>,
     text |-> <<" Line one<br/>Line two ">>,
     characteristics |->
        <<<<[title |-> <<"Subject Category">>, text |-> <<" Area protection ">>],
            [title |-> <<"Status">>, text |-> <<>>]>>>>,
     approvals |->
        <<<<[th |-> <<"Chile">>, td |-> <<" 2004-01-01\r\n">>],
            [th |-> <<"Peru">>, td |-> <<>>]>>>>]

\* the page, and the page without one of its fragments, or with an item
\* that has no title
Soups ==
    {SoupFull,
     [SoupFull EXCEPT !.title = <<>>],
     [SoupFull EXCEPT !.text = <<>>],
     [SoupFull EXCEPT !.characteristics = <<>>],
     [SoupFull EXCEPT !.approvals = <<>>],
     [SoupFull EXCEPT !.characteristics =
         <<<<[title |-> <<>>, text |-> <<"Not yet effective">>]>>>>]}

\* lines 111-112: the record with measure_number and scraped_at, the clock
\* read at t (line 112)
Artifact(info, n, t) ==
    [raw_title |-> info.raw_title, raw_text |-> info.raw_text,
     characteristics |-> info.characteristics, approvals |-> info.approvals,
     measure_number |-> n,
     scraped_at |-> IsoFormat(Second(t), Microsecond(t))]

\* the directories a run can find: empty, or with the artifact an earlier
\* run wrote for id 1 at reading 0
MeasureDirs ==
    {[f \in {BaseName(construct_measure_path(MeasuresDir, n, 0)) : n \in have}
        |-> Json(<<Artifact(
                scrape_measure([kind |-> "ok", soup |-> SoupFull]).info[1],
                CHOOSE n \in have :
                    f = BaseName(construct_measure_path(MeasuresDir, n, 0)),
                0)>>)] :
     have \in {{}, {1}}}

InitMeasures ==
    /\ dir \in MeasureDirs
    /\ paper = NoRecord
    /\ ignore_existing = TRUE
    /\ doc_links = <<>>
    /\ existing = {}
    /\ requests = <<>>
    /\ wrote = {}
    /\ fpc = "off"
    /\ calls = 0
    /\ prev = NoCall
    /\ start_dir = dir
    /\ timed_out = {}
    /\ measure_n = 1
    /\ measure_requests = <<>>
    /\ answer = NoPage
    /\ measure_info = <<>>
    /\ now = 0
    /\ spc = "running"
    /\ measure_error = ""
    /\ ReconOffAll
    /\ CrawlOff
    /\ MainOff

\* line 107: the id in hand is the last of the range
LoopEnds(n, info) == n = MaxMeasure

\* lines 107-118: one turn of the loop, the page answered with resp.  The
\* clock is read twice in a turn that writes: at line 112 for scraped_at,
\* which is the reading `now`, and then at line 94 for the name of the
\* file, which is the reading t2, the same or a later one.
MeasureStep(resp) ==
    LET r == scrape_measure(resp)
    IN  /\ spc = "running"
        /\ measure_requests' = Append(measure_requests, measure_url(measure_n))
        /\ answer' = resp
        /\ IF r.raised # ""
           THEN /\ spc' = "raised"
                /\ measure_error' = r.raised
                /\ UNCHANGED <<measure_n, measure_info, dir, now>>
           ELSE /\ IF r.info # <<>>
                   THEN /\ measure_info'
                              = <<Artifact(r.info[1], measure_n, now)>>
                        /\ \E t2 \in now..MaxClock :
                            /\ dir' = WriteFile(dir,
                                         construct_measure_path(
                                             MeasuresDir, measure_n, t2),
                                         Json(measure_info'))
                            /\ now' = t2
                   ELSE /\ measure_info' = <<>>
                        /\ UNCHANGED <<dir, now>>
                /\ measure_n' = measure_n + 1
                /\ spc' = IF LoopEnds(measure_n, r.info)
                          THEN "done" ELSE "running"
                /\ UNCHANGED measure_error
        /\ UNCHANGED <<callVars, reconVars, namingVars, crawlVars, mainVars>>

\* the page is answered with r.ok
MeasureOk == \E soup \in Soups : MeasureStep([kind |-> "ok", soup |-> soup])

\* the page is answered without r.ok
MeasureNotOk == MeasureStep([kind |-> "status"])

\* requests.get raises
MeasureError == MeasureStep([kind |-> "error"])

\* half a second goes by
Tick ==
    /\ spc = "running"
    /\ now < MaxClock
    /\ now' = now + 1
    /\ UNCHANGED <<measure_n, measure_requests, answer, measure_info, spc,
                   measure_error, fetchVars, reconVars, namingVars, crawlVars,
                   mainVars>>

NextMeasures == MeasureOk \/ MeasureNotOk \/ MeasureError \/ Tick

SpecMeasures == InitMeasures /\ [][NextMeasures]_vars

(***************************************************************************)
(* The claims about the measure crawler.                                   *)
(***************************************************************************)
\* C14: for a page answered with success, a fragment that is not there
\* (title heading, text container, characteristics list, approvals table)
\* gives a null or empty value for its field, approvals = [] without the
\* table, and scrape_measure still returns a record: it raises nothing and
\* the run goes on with the next id.
C14_MissingFragmentDegrades ==
    (answer.kind = "ok" /\ CharacteristicsError(answer.soup) # "AttributeError")
        =>  /\ spc # "raised"
            /\ measure_error = ""
            /\ measure_info # <<>>
            /\ answer.soup.approvals = <<>> => measure_info[1].approvals = <<>>
            /\ answer.soup.text = <<>> => measure_info[1].raw_text = <<>>
            /\ answer.soup.title = <<>> => measure_info[1].raw_title = <<>>
            /\ answer.soup.characteristics = <<>>
                   => DOMAIN measure_info[1].characteristics = {}

\* the step of a page answered without success: scrape_measure returns
\* None, nothing is written and the loop goes on to the next id
NotOkStep ==
    MeasureNotOk =>
        /\ measure_info' = <<>>
        /\ dir' = dir
        /\ spc' # "raised"
        /\ measure_n' = measure_n + 1
        /\ measure_n < MaxMeasure => spc' = "running"

\* the ids are requested from 1 upwards, none left out and none twice
AscendingOnce ==
    measure_requests = [k \in 1..Len(measure_requests) |-> measure_url(k)]

\* C15, as stated: a page answered without success makes scrape_measure
\* return None, no artifact is written for the id and the loop goes on to
\* the next id; every id of the range is requested exactly once in a run,
\* in ascending order.
C15_EveryIdRequestedOnce ==
    /\ [](/\ AscendingOnce
          /\ spc \in {"done", "raised"}
                 => Len(measure_requests) = MaxMeasure)
    /\ [][NotOkStep]_vars

\* the ids that have an artifact in directory d
IdsOnDisk(d) == {d[f].json[1].measure_number : f \in DOMAIN d}

\* a turn of the loop whose page was scraped: when the turn is over the
\* artifact of its id is in the directory, with the id and the fields
\* scraped, and the next id has not been requested
OkStepPersists ==
    \A soup \in Soups :
        (MeasureStep([kind |-> "ok", soup |-> soup]) /\ spc' # "raised") =>
            /\ \E f \in DOMAIN dir' :
                /\ dir'[f].json = measure_info'
                /\ dir'[f].json[1].measure_number = measure_n
                /\ dir'[f].json[1].raw_title
                       = scrape_measure([kind |-> "ok", soup |-> soup])
                            .info[1].raw_title
            /\ Len(measure_requests') = measure_n

\* C24: the artifact of an id whose page was scraped is written in the
\* turn of the loop that requested it, before the request for the next
\* id, and no later turn takes an id's artifact away: wherever the run
\* stops, every id scraped so far has its artifact in the directory.
C24_ArtifactBeforeNextRequest ==
    /\ [](measure_info # <<>> =>
            /\ measure_info[1].measure_number \in IdsOnDisk(dir)
            /\ measure_info[1].measure_number <= Len(measure_requests))
    /\ [][OkStepPersists /\ IdsOnDisk(dir) \subseteq IdsOnDisk(dir')]_vars

\* C24, its case: ids 1 and 2 were scraped in the same second in an empty
\* directory and both artifacts are there
C24_Witness ==
    /\ start_dir = <<>>
    /\ Second(now) = 0
    /\ Len(measure_requests) >= 2
    /\ {1, 2} \subseteq IdsOnDisk(dir)
    /\ Cardinality(DOMAIN dir) >= 2

\* C25: whatever runs have written to the directory, it holds one
\* artifact file at most for each measure id: a run does not add a second
\* file for an id that has one.
C25_OneArtifactPerId ==
    \A f, g \in DOMAIN dir :
        dir[f].json[1].measure_number = dir[g].json[1].measure_number
            => f = g

=============================================================================
